---- MODULE Spec2Model ----
(***************************************************************************)
(* json-mini: the tokenizer (include/json/lexer.hpp), the recursive parser *)
(* and the renderer (include/json/parser.hpp), and the driver that runs    *)
(* them in sequence.  Strings are sequences of one-character strings,      *)
(* C++ indices are kept 0-based (the element at index i is s[i + 1]).      *)
(***************************************************************************)
EXTENDS Integers, Sequences, FiniteSets, TLC

VARIABLES input, pc, text, start, end, tokens, scanErr, object, output

vars == <<input, pc, text, start, end, tokens, scanErr, object, output>>

(***************************************************************************)
(* Bounds of the explored inputs.                                          *)
(***************************************************************************)
\* longest arbitrary text handed to the tokenizer
MaxTextLen == 4
\* longest arbitrary token sequence handed to the parser
MaxTokens == 4
\* most fields (named values and named objects together) of a generated document
MaxNodes == 3
\* most trailing tokens cut off a generated document's token sequence
MaxCut == 1

(***************************************************************************)
(* Characters and tokens                                                   *)
(***************************************************************************)
Quote == "\""

Digits == {"0", "1", "2", "3", "4", "5", "6", "7", "8", "9"}

Whitespace == {"\n", "\t", "\r", " "}

is_digit(c) == c \in Digits

TOK_LEFT_BRACE == "TOK_LEFT_BRACE"
TOK_RIGHT_BRACE == "TOK_RIGHT_BRACE"
TOK_COLON == "TOK_COLON"
TOK_COMMA == "TOK_COMMA"
TOK_STR_VAL == "TOK_STR_VAL"
TOK_NUMBER == "TOK_NUMBER"

JsonTokenType ==
    {TOK_LEFT_BRACE, TOK_RIGHT_BRACE, TOK_COLON, TOK_COMMA, TOK_STR_VAL, TOK_NUMBER}

JsonToken(type, content) == [type |-> type, content |-> content]

\* std::string::substr(pos, count) on a 0-based position
substr(s, pos, count) == SubSeq(s, pos + 1, pos + count)

(***************************************************************************)
(* JsonLexer::scan, one action per iteration of its for loop.  `end` is    *)
(* the loop index, `start` the token start cursor, `tokens` the vector     *)
(* being filled; when the function returns, `tokens` is the returned       *)
(* vector and scanErr the message it printed ("" when none).               *)
(***************************************************************************)
\* the index at which `while (end != length && is_digit(s[end])) end++` stops
RECURSIVE DigitRunEnd(_, _)
DigitRunEnd(s, e) ==
    IF e < Len(s) /\ is_digit(s[e + 1]) THEN DigitRunEnd(s, e + 1) ELSE e

\* the index at which `while (end != length && s[end] != '"') end++` stops
RECURSIVE StringEnd(_, _)
StringEnd(s, e) ==
    IF e < Len(s) /\ s[e + 1] # Quote THEN StringEnd(s, e + 1) ELSE e

\* `return {};` on a lexical error: the vector built so far is not returned
ScanErrorReturnKeep(toks) == toks

ScanErrorReturn(toks) == <<>>

\* the text of a number token: substr(start, end - start), with `start` still
\* where the previous case left it
NumberText(s, st, e) == substr(s, st, e - st)

\* the number case leaves `end` on the character that follows the digit run,
\* and the for loop's `end++` then steps over it
AfterNumber(e) == e + 1

ScanFail(msg) ==
    /\ pc' = "scanned"
    /\ scanErr' = msg
    /\ tokens' = ScanErrorReturn(tokens)
    /\ UNCHANGED <<input, text, start, end, object, output>>

ScanSingle(c, type) ==
    /\ pc = "scan"
    /\ end < Len(text)
    /\ text[end + 1] = c
    /\ tokens' = Append(tokens, JsonToken(type, <<c>>))
    /\ start' = end
    /\ end' = end + 1
    /\ UNCHANGED <<input, pc, text, scanErr, object, output>>

ScanLeftBrace == ScanSingle("{", TOK_LEFT_BRACE)

ScanRightBrace == ScanSingle("}", TOK_RIGHT_BRACE)

ScanColon == ScanSingle(":", TOK_COLON)

ScanComma == ScanSingle(",", TOK_COMMA)

ScanWhitespace ==
    /\ pc = "scan"
    /\ end < Len(text)
    /\ text[end + 1] \in Whitespace
    /\ start' = end
    /\ end' = end + 1
    /\ UNCHANGED <<input, pc, text, tokens, scanErr, object, output>>

ScanString ==
    /\ pc = "scan"
    /\ end < Len(text)
    /\ text[end + 1] = Quote
    /\ LET st == end + 1
           e == StringEnd(text, st)
       IN  IF e = Len(text)
           THEN ScanFail("UnterminatedString")
           ELSE /\ tokens' = Append(tokens, JsonToken(TOK_STR_VAL, substr(text, st, e - st)))
                /\ start' = e
                /\ end' = e + 1
                /\ UNCHANGED <<input, pc, text, scanErr, object, output>>

ScanNumber ==
    /\ pc = "scan"
    /\ end < Len(text)
    /\ is_digit(text[end + 1])
    /\ LET e == DigitRunEnd(text, end + 1)
       IN  IF e = Len(text)
           THEN ScanFail("TruncatedNumber")
           ELSE /\ tokens' = Append(tokens, JsonToken(TOK_NUMBER, NumberText(text, start, e)))
                /\ start' = e
                /\ end' = AfterNumber(e)
                /\ UNCHANGED <<input, pc, text, scanErr, object, output>>

ScanUnknown ==
    /\ pc = "scan"
    /\ end < Len(text)
    /\ text[end + 1] \notin Whitespace \cup Digits \cup {"{", "}", ":", ",", Quote}
    /\ ScanFail("UnexpectedCharacter")

ScanReturn ==
    /\ pc = "scan"
    /\ end >= Len(text)
    /\ pc' = "scanned"
    /\ UNCHANGED <<input, text, start, end, tokens, scanErr, object, output>>

ScanStep ==
    \/ ScanLeftBrace
    \/ ScanRightBrace
    \/ ScanColon
    \/ ScanComma
    \/ ScanWhitespace
    \/ ScanString
    \/ ScanNumber
    \/ ScanUnknown
    \/ ScanReturn

(***************************************************************************)
(* The value tree.  One record shape for the three classes: `kind` is the  *)
(* dynamic type, and only the members of that class are meaningful.        *)
(***************************************************************************)
ROOT == <<"_", "_", "R", "O", "O", "T", "_", "_">>

JsonGroup(name, fields) ==
    [kind |-> "JsonGroup", name |-> name, value |-> <<>>, number |-> 0, fields |-> fields]

JsonString(name, value) ==
    [kind |-> "JsonString", name |-> name, value |-> value, number |-> 0, fields |-> <<>>]

JsonNumber(name, number) ==
    [kind |-> "JsonNumber", name |-> name, value |-> <<>>, number |-> number, fields |-> <<>>]

(***************************************************************************)
(* std::stoi on a token's text: leading whitespace is skipped (the         *)
(* vertical tab, which no string here holds, is left out), a sign is       *)
(* accepted, the longest digit run is converted; no digit throws           *)
(* std::invalid_argument, a value outside int throws std::out_of_range.    *)
(* parse catches neither, so a throw ends the program.                     *)
(***************************************************************************)
INT_MAX == 2147483647

INT_MIN == (0 - INT_MAX) - 1

DigitValue(c) ==
    CASE c = "0" -> 0 [] c = "1" -> 1 [] c = "2" -> 2 [] c = "3" -> 3 [] c = "4" -> 4
      [] c = "5" -> 5 [] c = "6" -> 6 [] c = "7" -> 7 [] c = "8" -> 8 [] c = "9" -> 9

RECURSIVE SkipSpace(_, _)
SkipSpace(s, k) ==
    IF k < Len(s) /\ s[k + 1] \in {" ", "\t", "\n", "\r", "\f"} THEN SkipSpace(s, k + 1) ELSE k

\* the digit run from index k on, accumulated with the sign applied; `ranged`
\* turns FALSE when the value leaves [INT_MIN, INT_MAX]
RECURSIVE DigitsValue(_, _, _, _)
DigitsValue(s, k, negative, acc) ==
    IF k < Len(s) /\ is_digit(s[k + 1])
    THEN LET d == DigitValue(s[k + 1])
             q == INT_MAX \div 10
             fits == IF negative
                     THEN acc > 0 - q \/ (acc = 0 - q /\ d <= 8)
                     ELSE acc < q \/ (acc = q /\ d <= 7)
         IN  IF fits
             THEN DigitsValue(s, k + 1, negative,
                              IF negative THEN 10 * acc - d ELSE 10 * acc + d)
             ELSE [ranged |-> FALSE, value |-> 0]
    ELSE [ranged |-> TRUE, value |-> acc]

stoi(s) ==
    LET k == SkipSpace(s, 0)
        signed == k < Len(s) /\ s[k + 1] \in {"+", "-"}
        d == IF signed THEN k + 1 ELSE k
        n == DigitsValue(s, d, signed /\ s[k + 1] = "-", 0)
    IN  IF ~(d < Len(s) /\ is_digit(s[d + 1]))
        THEN [thrown |-> "std::invalid_argument", value |-> 0]
        ELSE IF ~n.ranged
        THEN [thrown |-> "std::out_of_range", value |-> 0]
        ELSE [thrown |-> "", value |-> n.value]

(***************************************************************************)
(* JsonParser::parse.  A call returns                                      *)
(*   status  "value" (an object), "nullopt", or "terminated" (the process  *)
(*           died: assert, uncaught exception, fault),                     *)
(*   value   the returned object,                                          *)
(*   rest    the caller's vector as the call left it,                      *)
(*   notes   the messages printed and the code points passed, by this call *)
(*           and the calls below it.                                       *)
(* tokens[i] with i >= size() is undefined behaviour: the read yields      *)
(* oob[i - size()], any token or a fault ("SEGV"), chosen by the caller;   *)
(* one choice serves every such read of a call and of the calls below it.  *)
(***************************************************************************)
NoValue == JsonGroup(<<>>, <<>>)

SEGV == "SEGV"

ReadToken(toks, i, oob) == IF i < Len(toks) THEN toks[i + 1] ELSE oob[i - Len(toks)]

ReadNotes(toks, i) == IF i < Len(toks) THEN {} ELSE {"out-of-bounds read"}

\* the depth-matching while loop: where end_idx stops, and the depth there
RECURSIVE MatchEnd(_, _, _)
MatchEnd(toks, end_idx, brace_depth) ==
    IF end_idx < Len(toks) /\ brace_depth > 0
    THEN MatchEnd(toks, end_idx + 1,
                  IF toks[end_idx + 1].type = TOK_LEFT_BRACE THEN brace_depth + 1
                  ELSE IF toks[end_idx + 1].type = TOK_RIGHT_BRACE THEN brace_depth - 1
                  ELSE brace_depth)
    ELSE [end_idx |-> end_idx, brace_depth |-> brace_depth]

\* a variant that copies the span and leaves the vector as it was
extract_from_to_no_erase(toks, from, to) ==
    [asserted |-> to >= from /\ to <= Len(toks),
     extraction |-> SubSeq(toks, from + 1, to),
     tokens |-> toks]

extract_from_to(toks, from, to) ==
    [asserted |-> to >= from /\ to <= Len(toks),
     extraction |-> SubSeq(toks, from + 1, to),
     tokens |-> SubSeq(toks, 1, from) \o SubSeq(toks, to + 1, Len(toks))]

\* variants of the final wrapping: one that hands back any single group, one
\* that always wraps
ParseReturnAnyGroup(objects) ==
    IF Len(objects) = 1 /\ objects[1].kind = "JsonGroup"
    THEN objects[1]
    ELSE JsonGroup(ROOT, objects)

ParseReturnAlwaysWrap(objects) == JsonGroup(ROOT, objects)

\* lines 176-183: a single root-marked group is returned as it is, anything
\* else is wrapped in a new root-marked group
ParseReturn(objects) ==
    IF Len(objects) = 1 /\ objects[1].kind = "JsonGroup" /\ objects[1].name = ROOT
    THEN objects[1]
    ELSE JsonGroup(ROOT, objects)

Returned(toks, objects, notes) ==
    [status |-> "value", value |-> ParseReturn(objects), rest |-> toks, notes |-> notes]

Nullopt(toks, notes) ==
    [status |-> "nullopt", value |-> NoValue, rest |-> toks, notes |-> notes]

Terminated(toks, notes) ==
    [status |-> "terminated", value |-> NoValue, rest |-> toks, notes |-> notes]

UnbalancedNote(m) == IF m.brace_depth > 0 THEN {"unbalanced braces"} ELSE {}

RECURSIVE parse(_, _), ParseLoop(_, _, _, _, _), ParseBareBrace(_, _, _, _, _),
          ParseField(_, _, _, _, _), ParseNamedBrace(_, _, _, _, _, _)

\* lines 105-126, entered with i already past the `{`
ParseBareBrace(toks, i, objects, notes, oob) ==
    LET m == MatchEnd(toks, i, 1)
        notes1 == notes \cup UnbalancedNote(m)
    IN  IF i >= Len(toks)
        THEN Returned(toks, objects, notes1)
        ELSE LET x == extract_from_to(toks, i, m.end_idx - 1)
                 group_object == parse(x.extraction, oob)
                 notes2 == notes1 \cup group_object.notes
             IN  IF ~x.asserted
                 THEN Terminated(toks, notes1 \cup {"assert(to)"})
                 ELSE IF group_object.status = "terminated"
                 THEN Terminated(x.tokens, notes2)
                 ELSE IF group_object.status = "nullopt"
                 THEN Nullopt(x.tokens, notes2 \cup {"Failed to parse group object"})
                 ELSE ParseLoop(x.tokens, i + 1, Append(objects, group_object.value),
                                notes2, oob)

\* lines 141-170, entered with i already past the `{`
ParseNamedBrace(toks, i, objects, notes, oob, identifier) ==
    LET m == MatchEnd(toks, i, 1)
        notes1 == notes \cup UnbalancedNote(m)
    IN  IF i >= Len(toks)
        THEN Returned(toks, objects, notes1)
        ELSE LET x == extract_from_to(toks, i, m.end_idx - 1)
                 group_object == parse(x.extraction, oob)
                 notes2 == notes1 \cup group_object.notes
             IN  IF ~x.asserted
                 THEN Terminated(toks, notes1 \cup {"assert(to)"})
                 ELSE IF group_object.status = "terminated"
                 THEN Terminated(x.tokens, notes2)
                 ELSE IF group_object.status = "nullopt"
                 THEN Nullopt(x.tokens, notes2 \cup {"Failed to parse group object"})
                 ELSE IF group_object.value.kind = "JsonGroup"
                 THEN IF group_object.value.name # ROOT
                      THEN Nullopt(x.tokens,
                                   notes2 \cup {"Detected double naming in json group"})
                      ELSE ParseLoop(x.tokens, i + 1,
                                     Append(objects,
                                            JsonGroup(identifier, group_object.value.fields)),
                                     notes2, oob)
                 ELSE ParseLoop(x.tokens, i + 1, Append(objects, group_object.value),
                                notes2 \cup {"appended unchanged"}, oob)

\* lines 127-173, entered with i on the name
ParseField(toks, i, objects, notes, oob) ==
    LET identifier == toks[i + 1].content
        colon == ReadToken(toks, i + 1, oob)
        val == ReadToken(toks, i + 2, oob)
        notes1 == notes \cup ReadNotes(toks, i + 1)
                        \cup (IF i + 1 >= Len(toks) \/ toks[i + 2].type # TOK_COLON
                              THEN {"name without colon"} ELSE {})
        notes2 == notes1 \cup ReadNotes(toks, i + 2)
                         \cup (IF i + 1 < Len(toks) /\ toks[i + 2].type = TOK_COLON
                                  /\ (i + 2 >= Len(toks)
                                      \/ toks[i + 3].type \notin
                                           {TOK_NUMBER, TOK_STR_VAL, TOK_LEFT_BRACE})
                               THEN {"colon without value"} ELSE {})
    IN  IF colon.type = SEGV
        THEN Terminated(toks, notes1 \cup {"fault"})
        ELSE IF colon.type # TOK_COLON
        THEN Nullopt(toks, notes1 \cup {"Error: expected ':' after name"})
        ELSE IF val.type = SEGV
        THEN Terminated(toks, notes2 \cup {"fault"})
        ELSE IF val.type = TOK_NUMBER
        THEN LET n == stoi(val.content)
             IN  IF n.thrown # ""
                 THEN Terminated(toks, notes2 \cup {n.thrown})
                 ELSE ParseLoop(toks, i + 3, Append(objects, JsonNumber(identifier, n.value)),
                                notes2, oob)
        ELSE IF val.type = TOK_STR_VAL
        THEN ParseLoop(toks, i + 3, Append(objects, JsonString(identifier, val.content)),
                       notes2, oob)
        ELSE IF val.type = TOK_LEFT_BRACE
        THEN ParseNamedBrace(toks, i + 3, objects, notes2, oob, identifier)
        ELSE Terminated(toks, notes2 \cup {"assert(false)"})

\* the for loop of lines 104-175 from index i on, then the return
ParseLoop(toks, i, objects, notes, oob) ==
    IF i >= Len(toks)
    THEN Returned(toks, objects, notes)
    ELSE IF toks[i + 1].type = TOK_LEFT_BRACE
    THEN ParseBareBrace(toks, i + 1, objects, notes, oob)
    ELSE IF toks[i + 1].type = TOK_STR_VAL
    THEN ParseField(toks, i, objects, notes, oob)
    ELSE ParseLoop(toks, i + 1, objects, notes, oob)

parse(toks, oob) == ParseLoop(toks, 0, <<>>, {}, oob)

(***************************************************************************)
(* JsonParser::to_string                                                   *)
(***************************************************************************)
DigitChar(d) ==
    CASE d = 0 -> "0" [] d = 1 -> "1" [] d = 2 -> "2" [] d = 3 -> "3" [] d = 4 -> "4"
      [] d = 5 -> "5" [] d = 6 -> "6" [] d = 7 -> "7" [] d = 8 -> "8" [] d = 9 -> "9"

\* operator<<(int): the decimal digits, most significant first, after a '-'
\* for a negative value (n is divided towards zero, as C++ does)
RECURSIVE IntToString(_)
IntToString(n) ==
    IF n < 0
    THEN LET last == IF n % 10 = 0 THEN 0 ELSE 10 - (n % 10)
             quot == IF n % 10 = 0 THEN n \div 10 ELSE (n \div 10) + 1
         IN  IF quot = 0
             THEN <<"-", DigitChar(last)>>
             ELSE IntToString(quot) \o <<DigitChar(last)>>
    ELSE IF n < 10
    THEN <<DigitChar(n)>>
    ELSE IntToString(n \div 10) \o <<DigitChar(n % 10)>>

\* std::string(indent_lvl, '\t')
Tabs(indent_lvl) == [k \in 1..indent_lvl |-> "\t"]

RECURSIVE to_string(_, _), FieldsToString(_, _, _)

\* the loop of lines 201-209 from the k-th field on (k counts from 1)
FieldsToString(fields, k, indent_lvl) ==
    IF k > Len(fields)
    THEN <<>>
    ELSE (IF k # 1 THEN <<",", "\n">> ELSE <<>>)
         \o to_string(fields[k], indent_lvl + 1)
         \o (IF k = Len(fields) THEN <<"\n">> ELSE <<>>)
         \o FieldsToString(fields, k + 1, indent_lvl)

to_string(obj, indent_lvl) ==
    IF obj.kind = "JsonGroup"
    THEN (IF obj.name # ROOT
          THEN Tabs(indent_lvl) \o <<Quote>> \o obj.name \o <<Quote, ":", " ">>
          ELSE Tabs(indent_lvl))
         \o <<"{", "\n">>
         \o FieldsToString(obj.fields, 1, indent_lvl)
         \o Tabs(indent_lvl) \o <<"}">>
    ELSE IF obj.kind = "JsonString"
    THEN Tabs(indent_lvl) \o <<Quote>> \o obj.name \o <<Quote, ":", " ", Quote>>
         \o obj.value \o <<Quote>>
    ELSE IF obj.kind = "JsonNumber"
    THEN Tabs(indent_lvl) \o <<Quote>> \o obj.name \o <<Quote, ":", " ">>
         \o IntToString(obj.number)
    ELSE <<>>

(***************************************************************************)
(* The inputs.  A document of the dialect is a sequence of members: a      *)
(* number member carries its literal (a digit run) in `value`, a string    *)
(* member its text, an object member its own members in `fields`.          *)
(***************************************************************************)
LeafNames == {<<"b">>}

GroupNames == {<<"a">>, ROOT}

NumberLiterals == {<<"1">>, <<"2", "1", "4", "7", "4", "8", "3", "6", "4", "8">>}

StringValues == {<<"x">>}

DocNumber(name, literal) ==
    [kind |-> "JsonNumber", name |-> name, value |-> literal, number |-> 0, fields |-> <<>>]

Leaves ==
    {DocNumber(n, l) : n \in LeafNames, l \in NumberLiterals}
        \cup {JsonString(n, v) : n \in LeafNames, v \in StringValues}

\* the member sequences with exactly n members in all, nested ones included
RECURSIVE MembersOfSize(_)
MembersOfSize(n) ==
    IF n = 0
    THEN {<<>>}
    ELSE UNION {
           UNION {
             {<<m>> \o rest : rest \in MembersOfSize(n - k)} :
               m \in (IF k = 1 THEN Leaves ELSE {})
                       \cup {JsonGroup(g, f) : g \in GroupNames, f \in MembersOfSize(k - 1)}
           } : k \in 1..n }

Documents == UNION {MembersOfSize(n) : n \in 0..MaxNodes}

Layouts ==
    {[name |-> "compact", open |-> <<>>, colon |-> <<>>, comma |-> <<>>, close |-> <<>>],
     [name |-> "spaced", open |-> <<>>, colon |-> <<" ">>, comma |-> <<" ">>, close |-> <<>>],
     [name |-> "lines", open |-> <<"\n">>, colon |-> <<" ">>, comma |-> <<"\n">>,
      close |-> <<"\n">>]}

RECURSIVE ObjectText(_, _), MembersText(_, _, _)

\* the text of the members from the k-th on, comma separated
MembersText(members, k, layout) ==
    IF k > Len(members)
    THEN <<>>
    ELSE LET m == members[k]
         IN  (IF k # 1 THEN <<",">> \o layout.comma ELSE <<>>)
             \o <<Quote>> \o m.name \o <<Quote, ":">> \o layout.colon
             \o (IF m.kind = "JsonGroup" THEN ObjectText(m.fields, layout)
                 ELSE IF m.kind = "JsonString" THEN <<Quote>> \o m.value \o <<Quote>>
                 ELSE m.value)
             \o MembersText(members, k + 1, layout)

ObjectText(members, layout) ==
    <<"{">> \o layout.open \o MembersText(members, 1, layout) \o layout.close \o <<"}">>

RECURSIVE ObjectTokens(_), MembersTokens(_, _)

\* the tokens of the members from the k-th on
MembersTokens(members, k) ==
    IF k > Len(members)
    THEN <<>>
    ELSE LET m == members[k]
         IN  (IF k # 1 THEN <<JsonToken(TOK_COMMA, <<",">>)>> ELSE <<>>)
             \o <<JsonToken(TOK_STR_VAL, m.name), JsonToken(TOK_COLON, <<":">>)>>
             \o (IF m.kind = "JsonGroup" THEN ObjectTokens(m.fields)
                 ELSE IF m.kind = "JsonString" THEN <<JsonToken(TOK_STR_VAL, m.value)>>
                 ELSE <<JsonToken(TOK_NUMBER, m.value)>>)
             \o MembersTokens(members, k + 1)

ObjectTokens(members) ==
    <<JsonToken(TOK_LEFT_BRACE, <<"{">>)>> \o MembersTokens(members, 1)
        \o <<JsonToken(TOK_RIGHT_BRACE, <<"}">>)>>

\* arbitrary short texts
Alphabet == {"{", "}", ":", ",", Quote, " ", "1", "-"}

ShortTexts == UNION {[1..n -> Alphabet] : n \in 0..MaxTextLen}

\* the documents of the specification's own examples
ExampleDocuments ==
    {<<DocNumber(<<"a">>, <<"1">>)>>,
     <<JsonGroup(<<"a">>, <<DocNumber(<<"b">>, <<"1">>)>>)>>,
     <<JsonString(<<"a">>, <<"x">>), DocNumber(<<"b">>, <<"2">>)>>}

\* arbitrary short token sequences
TokenAlphabet ==
    {JsonToken(TOK_LEFT_BRACE, <<"{">>), JsonToken(TOK_RIGHT_BRACE, <<"}">>),
     JsonToken(TOK_COLON, <<":">>), JsonToken(TOK_COMMA, <<",">>),
     JsonToken(TOK_STR_VAL, <<"a">>), JsonToken(TOK_STR_VAL, ROOT),
     JsonToken(TOK_NUMBER, <<"1">>),
     JsonToken(TOK_NUMBER, <<"2", "1", "4", "7", "4", "8", "3", "6", "4", "8">>)}

ShortTokens == UNION {[1..n -> TokenAlphabet] : n \in 0..MaxTokens}

NoObject == [status |-> "none", value |-> NoValue, notes |-> {}]

TextInput(t) ==
    [kind |-> "text", members |-> <<>>, layout |-> "", cut |-> 0, tokens |-> <<>>]

DocumentTextInput(members, layout) ==
    [kind |-> "document", members |-> members, layout |-> layout.name, cut |-> 0,
     tokens |-> <<>>]

TokensInput(toks) ==
    [kind |-> "tokens", members |-> <<>>, layout |-> "", cut |-> 0, tokens |-> toks]

DocumentTokensInput(members, cut) ==
    [kind |-> "document", members |-> members, layout |-> "", cut |-> cut,
     tokens |-> SubSeq(ObjectTokens(members), 1, Len(ObjectTokens(members)) - cut)]

(***************************************************************************)
(* The calls after the scan: parse, then to_string (print_json_object in   *)
(* the driver), or the driver's failure exit.                              *)
(***************************************************************************)
OOBOutcomes ==
    {JsonToken(SEGV, <<>>), JsonToken(TOK_LEFT_BRACE, <<"{">>),
     JsonToken(TOK_RIGHT_BRACE, <<"}">>), JsonToken(TOK_COLON, <<":">>),
     JsonToken(TOK_STR_VAL, <<"?">>), JsonToken(TOK_NUMBER, <<"7">>),
     JsonToken(TOK_NUMBER, <<"?">>)}

Faulting == [k \in 0..1 |-> JsonToken(SEGV, <<>>)]

\* what the reads past the end may yield: nothing to choose when the call
\* makes none; oob[1] is only read after oob[0] was read as a colon
OOBReads(toks) ==
    IF "out-of-bounds read" \in parse(toks, Faulting).notes
    THEN {o \in [0..1 -> OOBOutcomes] : o[0].type # TOK_COLON => o[1].type = SEGV}
    ELSE {Faulting}

Parse ==
    /\ pc = "scanned"
    /\ \E oob \in OOBReads(tokens) :
         LET r == parse(tokens, oob)
         IN  /\ object' = [status |-> r.status, value |-> r.value, notes |-> r.notes]
             /\ tokens' = r.rest
             /\ pc' = IF r.status = "terminated" THEN "terminated" ELSE "parsed"
    /\ UNCHANGED <<input, text, start, end, scanErr, output>>

PrintJsonObject ==
    /\ pc = "parsed"
    /\ object.status = "value"
    /\ output' = to_string(object.value, 0)
    /\ pc' = "printed"
    /\ UNCHANGED <<input, text, start, end, tokens, scanErr, object>>

MainFail ==
    /\ pc = "parsed"
    /\ object.status = "nullopt"
    /\ pc' = "failed"
    /\ UNCHANGED <<input, text, start, end, tokens, scanErr, object, output>>

(***************************************************************************)
(* Specifications                                                          *)
(***************************************************************************)
InitScan ==
    /\ pc = "scan"
    /\ start = 0
    /\ end = 0
    /\ tokens = <<>>
    /\ scanErr = ""
    /\ object = NoObject
    /\ output = <<>>

\* the tokenizer alone, on short texts and the specification's examples
InitLex ==
    /\ InitScan
    /\ \/ /\ text \in ShortTexts
          /\ input = TextInput(text)
       \/ \E d \in ExampleDocuments, l \in Layouts :
            /\ text = ObjectText(d, l)
            /\ input = DocumentTextInput(d, l)

NextLex == ScanStep

SpecLex == InitLex /\ [][NextLex]_vars

\* the parser and the renderer, on token sequences
InitParse ==
    /\ pc = "scanned"
    /\ text = <<>>
    /\ start = 0
    /\ end = 0
    /\ scanErr = ""
    /\ object = NoObject
    /\ output = <<>>
    /\ \/ \E t \in ShortTokens : input = TokensInput(t)
       \/ \E d \in Documents \cup ExampleDocuments, c \in 0..MaxCut :
            input = DocumentTokensInput(d, c)
    /\ tokens = input.tokens

NextParse == Parse \/ PrintJsonObject

SpecParse == InitParse /\ [][NextParse]_vars

\* the driver: scan, parse, print
Init ==
    /\ InitScan
    /\ \/ /\ text \in ShortTexts
          /\ input = TextInput(text)
       \/ \E d \in Documents \cup ExampleDocuments, l \in Layouts :
            /\ text = ObjectText(d, l)
            /\ input = DocumentTextInput(d, l)

Next == ScanStep \/ Parse \/ PrintJsonObject \/ MainFail

Spec == Init /\ [][Next]_vars

(***************************************************************************)
(* Properties of the tokenizer (SpecLex)                                   *)
(***************************************************************************)
Punctuation == {"{", "}", ":", ","}

\* the punctuation characters of s from index k on that lie outside a string
\* literal, in order; `inside` tells whether index k lies inside one
RECURSIVE PunctuationOutside(_, _, _)
PunctuationOutside(s, k, inside) ==
    IF k >= Len(s)
    THEN <<>>
    ELSE IF s[k + 1] = Quote
    THEN PunctuationOutside(s, k + 1, ~inside)
    ELSE IF ~inside /\ s[k + 1] \in Punctuation
    THEN <<s[k + 1]>> \o PunctuationOutside(s, k + 1, inside)
    ELSE PunctuationOutside(s, k + 1, inside)

IsPunctuationToken(t) ==
    t.type \in {TOK_LEFT_BRACE, TOK_RIGHT_BRACE, TOK_COLON, TOK_COMMA}

TokenChar(t) ==
    CASE t.type = TOK_LEFT_BRACE -> "{"
      [] t.type = TOK_RIGHT_BRACE -> "}"
      [] t.type = TOK_COLON -> ":"
      [] t.type = TOK_COMMA -> ","

PunctuationTokens(toks) ==
    LET p == SelectSeq(toks, IsPunctuationToken)
    IN  [k \in 1..Len(p) |-> TokenChar(p[k])]

TokenTypes(toks) == [k \in 1..Len(toks) |-> toks[k].type]

ExampleA1 == <<"{", Quote, "a", Quote, ":", " ", "1", "}">>

\* C2: when the scan succeeds, the `{`, `}`, `:` and `,` characters outside
\* string literals and the punctuation tokens correspond one to one, in input
\* order; and the text {"a": 1} gives LeftBrace, StringLiteral, Colon,
\* NumberLiteral, RightBrace.
C2_PunctuationOneTokenEach ==
    (pc = "scanned" /\ scanErr = "") =>
        /\ PunctuationTokens(tokens) = PunctuationOutside(text, 0, FALSE)
        /\ text = ExampleA1 =>
             TokenTypes(tokens) = <<TOK_LEFT_BRACE, TOK_STR_VAL, TOK_COLON, TOK_NUMBER,
                                    TOK_RIGHT_BRACE>>

\* C3: the text of every number token consists of digits only.
C3_NumberTextIsDigits ==
    \A k \in 1..Len(tokens) :
        tokens[k].type = TOK_NUMBER =>
            /\ Len(tokens[k].content) > 0
            /\ \A j \in 1..Len(tokens[k].content) : is_digit(tokens[k].content[j])

QuoteCount(s) == Cardinality({k \in 1..Len(s) : s[k] = Quote})

\* the last character is a digit, and an even number of quotes precedes it
EndsWithDigitOutsideString(s) ==
    /\ Len(s) > 0
    /\ is_digit(s[Len(s)])
    /\ QuoteCount(s) % 2 = 0

\* the index at which the digit run that ends the text begins
RECURSIVE FinalRunStart(_, _)
FinalRunStart(s, k) ==
    IF k > 0 /\ is_digit(s[k]) THEN FinalRunStart(s, k - 1) ELSE k

Parsed == pc \in {"parsed", "terminated", "printed", "failed"}

\* a whole document of the dialect was given
WholeDocument == input.kind = "document" /\ input.cut = 0

IntMaxLiteral == <<"2", "1", "4", "7", "4", "8", "3", "6", "4", "7">>

\* a and b are digit runs of one length: a is at most b
RECURSIVE DigitsAtMost(_, _, _)
DigitsAtMost(a, b, k) ==
    IF k > Len(a)
    THEN TRUE
    ELSE IF DigitValue(a[k]) < DigitValue(b[k])
    THEN TRUE
    ELSE IF DigitValue(a[k]) > DigitValue(b[k])
    THEN FALSE
    ELSE DigitsAtMost(a, b, k + 1)

\* the literal (without leading zeros) denotes a value an int holds
LiteralFits(l) ==
    Len(l) < Len(IntMaxLiteral)
        \/ (Len(l) = Len(IntMaxLiteral) /\ DigitsAtMost(l, IntMaxLiteral, 1))

\* the value a literal denotes: the sum of its digits' place values
RECURSIVE LiteralValue(_)
LiteralValue(l) ==
    IF Len(l) = 0
    THEN 0
    ELSE 10 * LiteralValue(SubSeq(l, 1, Len(l) - 1)) + DigitValue(l[Len(l)])

RECURSIVE AllLiteralsFit(_), NoRootNames(_), Expected(_), GroupCount(_)

AllLiteralsFit(members) ==
    \A k \in 1..Len(members) :
        /\ members[k].kind = "JsonNumber" => LiteralFits(members[k].value)
        /\ members[k].kind = "JsonGroup" => AllLiteralsFit(members[k].fields)

NoRootNames(members) ==
    \A k \in 1..Len(members) :
        /\ members[k].name # ROOT
        /\ members[k].kind = "JsonGroup" => NoRootNames(members[k].fields)

\* the value nodes the members of a document stand for
Expected(members) ==
    [k \in 1..Len(members) |->
        IF members[k].kind = "JsonGroup"
        THEN JsonGroup(members[k].name, Expected(members[k].fields))
        ELSE IF members[k].kind = "JsonString"
        THEN JsonString(members[k].name, members[k].value)
        ELSE JsonNumber(members[k].name, LiteralValue(members[k].value))]

C5_UnbalancedBracesFail ==
    "unbalanced braces" \in object.notes => object.status = "nullopt"

\* C6: a name that is not followed by a colon makes parse fail with the
\* expected-colon error, without a read at or beyond the end of the sequence.
C6_NameWithoutColonFails ==
    "name without colon" \in object.notes =>
        /\ object.status = "nullopt"
        /\ "Error: expected ':' after name" \in object.notes
        /\ "out-of-bounds read" \notin object.notes

\* C7: a name and colon followed by no value token make parse return the
\* failure result, without a read beyond the end of the sequence.
C7_ColonWithoutValueFails ==
    "colon without value" \in object.notes =>
        /\ object.status = "nullopt"
        /\ "out-of-bounds read" \notin object.notes

\* C9: what parse returns, at every level, is a group named __ROOT__: the
\* double-naming failure and the append-unchanged branch are never taken.
C9_ReturnedValueIsRootGroup ==
    Parsed =>
        /\ object.status = "value" =>
             object.value.kind = "JsonGroup" /\ object.value.name = ROOT
        /\ "Detected double naming in json group" \notin object.notes
        /\ "appended unchanged" \notin object.notes

\* a returned tree in which the colon-then-brace branch re-labelled a sub-tree
C9_Witness ==
    /\ pc = "parsed"
    /\ input.kind = "tokens"
    /\ object.status = "value"
    /\ Len(object.value.fields) = 1
    /\ object.value.fields[1].kind = "JsonGroup"
    /\ object.value.fields[1].name = <<"a">>

\* some object's only member is an object named __ROOT__
RECURSIVE HasSoleRootGroup(_)
HasSoleRootGroup(members) ==
    \/ Len(members) = 1 /\ members[1].kind = "JsonGroup" /\ members[1].name = ROOT
    \/ \E k \in 1..Len(members) :
         members[k].kind = "JsonGroup" /\ HasSoleRootGroup(members[k].fields)

\* every field named __ROOT__ is an object that is its object's only member
RECURSIVE AllRootsSole(_)
AllRootsSole(members) ==
    /\ \A k \in 1..Len(members) :
         members[k].name = ROOT => Len(members) = 1 /\ members[k].kind = "JsonGroup"
    /\ \A k \in 1..Len(members) :
         members[k].kind = "JsonGroup" => AllRootsSole(members[k].fields)

\* the objects among the members, nested ones included
GroupCount(members) ==
    IF Len(members) = 0
    THEN 0
    ELSE (IF members[1].kind = "JsonGroup" THEN 1 + GroupCount(members[1].fields) ELSE 0)
         + GroupCount(Tail(members))

\* the objects named __ROOT__ that are their object's only member, among
\* the members and, from the k-th member on, below them
RECURSIVE SoleRootCount(_), SoleRootBelow(_, _)
SoleRootBelow(members, k) ==
    IF k > Len(members)
    THEN 0
    ELSE (IF members[k].kind = "JsonGroup" THEN SoleRootCount(members[k].fields) ELSE 0)
         + SoleRootBelow(members, k + 1)

SoleRootCount(members) ==
    (IF Len(members) = 1 /\ members[1].kind = "JsonGroup" /\ members[1].name = ROOT
     THEN 1 ELSE 0)
        + SoleRootBelow(members, 1)

\* the members with every object whose only member is an object named
\* __ROOT__ replaced by that member's own contents
RECURSIVE Collapsed(_)
Collapsed(members) ==
    LET below == [k \in 1..Len(members) |->
                    IF members[k].kind = "JsonGroup"
                    THEN JsonGroup(members[k].name, Collapsed(members[k].fields))
                    ELSE IF members[k].kind = "JsonString"
                    THEN JsonString(members[k].name, members[k].value)
                    ELSE JsonNumber(members[k].name, LiteralValue(members[k].value))]
    IN  IF Len(below) = 1 /\ below[1].kind = "JsonGroup" /\ below[1].name = ROOT
        THEN below[1].fields
        ELSE below

Mentions(s, c) == \E k \in 1..Len(s) : s[k] = c

\* C10: when an object's only member is an object named __ROOT__, the tree
\* parse returns has that member's contents in place of the enclosing level
\* (one object fewer for each such member), and to_string prints it without
\* the name.
C10_SoleRootMemberReplacesItsLevel ==
    (Parsed /\ WholeDocument /\ HasSoleRootGroup(input.members)
        /\ object.status = "value") =>
        /\ object.value = JsonGroup(ROOT, Collapsed(input.members))
        /\ GroupCount(object.value.fields)
             = GroupCount(input.members) - SoleRootCount(input.members)
        /\ (pc = "printed" /\ AllRootsSole(input.members)) => ~Mentions(output, "_")

\* {"__ROOT__": {"b": 1}} parsed and printed
C10_Witness ==
    /\ pc = "printed"
    /\ WholeDocument
    /\ input.members = <<JsonGroup(ROOT, <<DocNumber(<<"b">>, <<"1">>)>>)>>
    /\ object.value = JsonGroup(ROOT, <<JsonNumber(<<"b">>, 1)>>)
    /\ output = <<"{", "\n", "\t", Quote, "b", Quote, ":", " ", "1", "\n", "}">>

(***************************************************************************)
(* Property of the driver's pipeline (Spec)                                *)
(***************************************************************************)
StripWhitespace(s) == LET Solid(c) == c \notin Whitespace IN SelectSeq(s, Solid)

\* C1: for a document of the dialect (here: no field named __ROOT__, every
\* literal within int, in any of the layouts) the scan and the parse succeed
\* and the printed text has the document's names, nesting and values in the
\* document's order: the two texts differ in whitespace only.
C1_RoundTrip ==
    (pc \in {"printed", "failed", "terminated"} /\ input.kind = "document"
        /\ NoRootNames(input.members) /\ AllLiteralsFit(input.members)) =>
        /\ scanErr = ""
        /\ pc = "printed"
        /\ StripWhitespace(output) = StripWhitespace(text)
====
